---------------------------- MODULE Spec2Model ----------------------------
(***************************************************************************)
(* Model of the installment calculator of src/app/page.tsx: the React      *)
(* component InstallmentCalculator, its state, its two effects, and the    *)
(* resolver validateAndCalculate with the three formulas it uses.          *)
(*                                                                         *)
(* Numbers.  A JavaScript number is modelled as an exact rational n/d in   *)
(* lowest terms, or one of the IEEE specials Infinity, -Infinity, NaN.     *)
(* The binary rounding of doubles is abstracted (a product or quotient is  *)
(* exact); division by zero, Infinity and NaN behave as in IEEE 754.       *)
(*                                                                         *)
(* Strings.  A field holds a string: "" (empty), a decimal numeral with a  *)
(* sign, a magnitude and a number of decimals ("947.67" is magnitude 94767 *)
(* with 2 decimals, "13" is magnitude 13 with 0 decimals, "-0.00" is the   *)
(* negative numeral of magnitude 0), "Infinity", "-Infinity" or "NaN".     *)
(* Two strings are the same string iff the records are equal, which is     *)
(* what React's dependency comparison (Object.is) sees.                    *)
(***************************************************************************)
EXTENDS Integers, Sequences, FiniteSets, TLC

(***************************************************************************)
(* Bounds of the model.                                                    *)
(***************************************************************************)
\* Number of user edits (onChange events) explored in one behaviour.
MaxEvents == 4
\* The count of resolver passes since the last user event stops here.
MaxPasses == 6

(***************************************************************************)
(* Numbers.                                                                *)
(***************************************************************************)
Abs(i) == IF i < 0 THEN -i ELSE i

\* The arithmetic is written as functions: a function is applied to the
\* value of its argument, as a JavaScript call is.
Num == [k : {"fin", "inf", "ninf", "nan"}, n : Int, d : Int]

GCD[a \in Nat, b \in Nat] == IF b = 0 THEN a ELSE GCD[b, a % b]

\* The rational n/d (d # 0) in lowest terms with a positive denominator.
Fin[n \in Int, d \in Int] ==
  LET s == IF d < 0 THEN -1 ELSE 1
      g == GCD[Abs(n), Abs(d)]
  IN  [k |-> "fin", n |-> (s * n) \div g, d |-> Abs(d) \div g]

Zero == [k |-> "fin", n |-> 0, d |-> 1]
One == [k |-> "fin", n |-> 1, d |-> 1]
PosInf == [k |-> "inf", n |-> 0, d |-> 1]
NegInf == [k |-> "ninf", n |-> 0, d |-> 1]
NaN == [k |-> "nan", n |-> 0, d |-> 1]

\* -1, 0 or 1.
Sgn(x) ==
  CASE x.k = "inf" -> 1
    [] x.k = "ninf" -> -1
    [] x.k = "fin" -> (IF x.n > 0 THEN 1 ELSE IF x.n < 0 THEN -1 ELSE 0)
    [] OTHER -> 0

\* -x
Neg[x \in Num] ==
  CASE x.k = "inf" -> NegInf
    [] x.k = "ninf" -> PosInf
    [] x.k = "fin" -> [x EXCEPT !.n = -x.n]
    [] OTHER -> NaN

\* a + b
Add[a \in Num, b \in Num] ==
  IF a.k = "nan" \/ b.k = "nan" THEN NaN
  ELSE IF a.k = "fin" /\ b.k = "fin" THEN
    LET g == GCD[a.d, b.d]
    IN  Fin[a.n * (b.d \div g) + b.n * (a.d \div g), (a.d \div g) * b.d]
  ELSE IF a.k = "fin" THEN b
  ELSE IF b.k = "fin" THEN a
  ELSE IF a.k = b.k THEN a
  ELSE NaN

\* a - b
Sub[a \in Num, b \in Num] == Add[a, Neg[b]]

\* a * b
Mul[a \in Num, b \in Num] ==
  IF a.k = "nan" \/ b.k = "nan" THEN NaN
  ELSE IF a.k = "fin" /\ b.k = "fin" THEN
    LET g == GCD[Abs(a.n), b.d]
        h == GCD[Abs(b.n), a.d]
    IN  Fin[(a.n \div g) * (b.n \div h), (a.d \div h) * (b.d \div g)]
  ELSE IF Sgn(a) * Sgn(b) = 0 THEN NaN
  ELSE IF Sgn(a) * Sgn(b) > 0 THEN PosInf
  ELSE NegInf

\* a / b.  Every zero divisor the program produces is +0 (parseNumber maps
\* -0 to 0), so x / 0 is Infinity, -Infinity or NaN by the sign of x.
Div[a \in Num, b \in Num] ==
  IF a.k = "nan" \/ b.k = "nan" THEN NaN
  ELSE IF a.k = "fin" /\ b.k = "fin" THEN
    IF b.n = 0
    THEN (IF a.n = 0 THEN NaN ELSE IF a.n > 0 THEN PosInf ELSE NegInf)
    ELSE LET g == GCD[Abs(a.n), Abs(b.n)]
             h == GCD[a.d, b.d]
         IN  Fin[(a.n \div g) * (b.d \div h), (a.d \div h) * (b.n \div g)]
  ELSE IF a.k = "fin" THEN Zero
  ELSE IF b.k = "fin" THEN
    (IF Sgn(a) * (IF b.n < 0 THEN -1 ELSE 1) > 0 THEN PosInf ELSE NegInf)
  ELSE NaN

\* a < b (false when either is NaN)
Lt(a, b) ==
  /\ a.k # "nan"
  /\ b.k # "nan"
  /\ IF a.k = "fin" /\ b.k = "fin" THEN a.n * b.d < b.n * a.d
     ELSE IF a.k = b.k THEN FALSE
     ELSE a.k = "ninf" \/ b.k = "inf"

\* a <= b (false when either is NaN)
Le(a, b) == a.k # "nan" /\ b.k # "nan" /\ (Lt(a, b) \/ a = b)

\* a > b (false when either is NaN)
Gt(a, b) == Lt(b, a)

\* The integer nearest to n/d (n >= 0, d > 0), a half going up.
RoundHalfUp(n, d) == (n \div d) + (IF (n % d) >= d - (n % d) THEN 1 ELSE 0)

\* Math.round: the nearest integer, a half going towards +Infinity.
MathRound[x \in Num] ==
  IF x.k # "fin" THEN x
  ELSE IF x.n >= 0 THEN Fin[RoundHalfUp(x.n, x.d), 1]
  ELSE Fin[-((-x.n) \div x.d)
             - (IF ((-x.n) % x.d) > x.d - ((-x.n) % x.d) THEN 1 ELSE 0), 1]

(***************************************************************************)
(* Strings.                                                                *)
(***************************************************************************)
RECURSIVE Pow10(_)
Pow10(e) == IF e = 0 THEN 1 ELSE 10 * Pow10(e - 1)

Str ==
  [k : {"empty", "num", "inf", "ninf", "nan", "nowrite"}, neg : BOOLEAN,
   mag : Nat, dec : Nat]

Empty == [k |-> "empty", neg |-> FALSE, mag |-> 0, dec |-> 0]
InfinityStr == [k |-> "inf", neg |-> FALSE, mag |-> 0, dec |-> 0]
NegInfinityStr == [k |-> "ninf", neg |-> TRUE, mag |-> 0, dec |-> 0]
NaNStr == [k |-> "nan", neg |-> FALSE, mag |-> 0, dec |-> 0]
\* The numeral of magnitude mag with dec decimals, with a "-" when neg.
Numeral(neg, mag, dec) == [k |-> "num", neg |-> neg, mag |-> mag, dec |-> dec]
\* The text a user types for the whole number i.
Typed(i) == Numeral(i < 0, Abs(i), 0)

\* JavaScript truthiness of a string: non-empty.
Truthy(s) == s # Empty

\* (q + r/d) * 10^e rounded to the nearest integer, a half going up, one
\* decimal digit at a time (0 <= r < d).
RECURSIVE RoundScaled(_, _, _, _)
RoundScaled(q, r, d, e) ==
  IF e = 0 THEN q + (IF r >= d - r THEN 1 ELSE 0)
  ELSE RoundScaled(10 * q + ((10 * r) \div d), (10 * r) % d, d, e - 1)

\* Number.prototype.toFixed[dec]: the sign is taken off a negative number,
\* the magnitude is rounded to dec decimals (a half going up) and written
\* with the sign, so a small negative number gives "-0.00".
toFixed[x \in Num, dec \in Nat] ==
  CASE x.k = "inf" -> InfinityStr
    [] x.k = "ninf" -> NegInfinityStr
    [] x.k = "nan" -> NaNStr
    [] OTHER ->
       Numeral(x.n < 0, RoundScaled(Abs(x.n) \div x.d, Abs(x.n) % x.d, x.d, dec),
               dec)

\* Number.parseFloat
parseFloat[s \in Str] ==
  CASE s.k = "num" -> Fin[IF s.neg THEN -s.mag ELSE s.mag, Pow10(s.dec)]
    [] s.k = "inf" -> PosInf
    [] s.k = "ninf" -> NegInf
    [] OTHER -> NaN

\* parseFloat[value] || 0: NaN and zero are falsy
parseNumber[s \in Str] ==
  LET v == parseFloat[s]
  IN  IF v.k = "nan" \/ (v.k = "fin" /\ v.n = 0) THEN Zero ELSE v

\* value || "0"
OrZeroStr(s) == IF Truthy(s) THEN s ELSE Typed(0)

\* Intl.NumberFormat("ar-EG").format(Math.round(num)): the text is the
\* rounded number, which stands for it.
formatNumber[x \in Num] == MathRound[x]

(***************************************************************************)
(* The three formulas.                                                     *)
(***************************************************************************)
RateNum == 33
RateDen == 1000
MONTHLY_PROFIT_RATE == Fin[RateNum, RateDen]

calculateInstallment[price \in Num, down \in Num, period \in Num] ==
  LET remainingAmount == Sub[price, down]
      totalWithProfit ==
        Mul[remainingAmount, Add[One, Mul[MONTHLY_PROFIT_RATE, period]]]
  IN  Div[totalWithProfit, period]

calculateDownPayment[price \in Num, installment \in Num, period \in Num] ==
  LET totalInstallments == Mul[installment, period]
      totalWithoutDown ==
        Mul[price, Add[One, Mul[MONTHLY_PROFIT_RATE, period]]]
  IN  Sub[totalWithoutDown, totalInstallments]

calculatePeriod[price \in Num, down \in Num, installment \in Num] ==
  LET remainingAmount == Sub[price, down]
      denominator ==
        Sub[installment, Mul[remainingAmount, MONTHLY_PROFIT_RATE]]
  IN  IF Le(denominator, Zero) THEN Zero
      ELSE Div[remainingAmount, denominator]

(***************************************************************************)
(* The component's state (useState, lines 11-22) and the bookkeeping of    *)
(* React's render/effect cycle.                                            *)
(***************************************************************************)
VARIABLES
  purchasePrice,       \* string
  downPayment,         \* string
  repaymentPeriod,     \* string
  monthlyInstallment,  \* string
  isFocus,             \* "price", "down", "period", "installment" or ""
  calculatedField,     \* "down", "period", "installment" or ""
  error,               \* the message: its kind and the amount it carries
  results,             \* NoResults (null) or the totals
  pending,             \* a render is committed whose effects have not run
  lastDeps,            \* the dependency array of the previous render
  lastPass,            \* what the effects of the last commit did
  events,              \* user edits so far
  passes,              \* resolver passes since the last user event
  rt                   \* the inputs and outputs of the round trip

vars ==
  <<purchasePrice, downPayment, repaymentPeriod, monthlyInstallment, isFocus,
    calculatedField, error, results, pending, lastDeps, lastPass, events,
    passes, rt>>

\* setX was not called.
NoWrite == [k |-> "nowrite", neg |-> FALSE, mag |-> 0, dec |-> 0]
\* results === null
NoResults ==
  [set |-> FALSE, totalWithProfit |-> Zero, totalPaid |-> Zero,
   missingAmount |-> Zero]
\* error === ""
NoError == [kind |-> "", amount |-> Zero]
MissingPriceError == [kind |-> "MissingPrice", amount |-> Zero]
InsufficientInputsError == [kind |-> "InsufficientInputs", amount |-> Zero]
ShortfallError[missingAmount \in Num] ==
  [kind |-> "Shortfall", amount |-> formatNumber[missingAmount]]

(***************************************************************************)
(* validateAndCalculate (lines 69-177).                                    *)
(***************************************************************************)
\* lines 81-85
filledFields(dp, rp, mi) ==
  (IF Truthy(dp) THEN {"down"} ELSE {})
    \cup (IF Truthy(rp) THEN {"period"} ELSE {})
    \cup (IF Truthy(mi) THEN {"installment"} ELSE {})

\* line 87 with the threshold one too low.
TooFewFilled_OneIsEnough(dp, rp, mi) ==
  Cardinality(filledFields(dp, rp, mi)) < 1

\* line 87
TooFewFilled(dp, rp, mi) == Cardinality(filledFields(dp, rp, mi)) < 2

\* lines 100-128 without the isFocus conditions.
FillBranch_IgnoresFocus(dp, rp, mi, focus) ==
  IF Truthy(dp) /\ Truthy(rp) /\ ~Truthy(mi) THEN "installment"
  ELSE IF Truthy(mi) /\ Truthy(rp) /\ ~Truthy(dp) THEN "down"
  ELSE IF Truthy(dp) /\ Truthy(mi) /\ ~Truthy(rp) THEN "period"
  ELSE ""

\* lines 100-128: the branch taken of "Calculate based on which fields are
\* filled", named by the field it writes ("" when none is taken).
FillBranch(dp, rp, mi, focus) ==
  IF Truthy(dp) /\ Truthy(rp) /\ ~Truthy(mi) /\ focus # "installment"
  THEN "installment"
  ELSE IF Truthy(mi) /\ Truthy(rp) /\ ~Truthy(dp) /\ focus # "down"
  THEN "down"
  ELSE IF Truthy(dp) /\ Truthy(mi) /\ ~Truthy(rp) /\ focus # "period"
  THEN "period"
  ELSE ""

\* lines 143-159: the branch taken by focus, named by the field it writes.
FocusBranch(focus) ==
  IF focus = "period" THEN "installment"
  ELSE IF focus = "installment" THEN "period"
  ELSE IF focus = "down" THEN "installment"
  ELSE IF focus = "price" THEN "installment"
  ELSE ""

\* lines 137-141 and 161-165, on the trio the code has at line 133.
Totals[price \in Num, finalDown \in Num, finalPeriod \in Num, finalInstallment \in Num] ==
  LET remainingAmount == Sub[price, finalDown]
      totalWithProfit ==
        Add[price, Mul[Mul[remainingAmount, MONTHLY_PROFIT_RATE], finalPeriod]]
      totalPaid == Add[finalDown, Mul[finalInstallment, finalPeriod]]
  IN  [set |-> TRUE, totalWithProfit |-> totalWithProfit,
       totalPaid |-> totalPaid,
       missingAmount |-> Sub[totalWithProfit, totalPaid]]

\* lines 167-176
ErrorOf[missingAmount \in Num] ==
  IF Gt(missingAmount, One) THEN ShortfallError[missingAmount] ELSE NoError

\* The setState calls of one call of validateAndCalculate, the last call of
\* each setter standing for the batch, with the values the locals
\* calculatedDown, calculatedPeriod and calculatedInstallment end with.
validateAndCalculate(pp, dp, rp, mi, focus) ==
  LET price == parseNumber[OrZeroStr(pp)]
      down == parseNumber[IF dp = Empty THEN Typed(0) ELSE dp]
      period == parseNumber[OrZeroStr(rp)]
      installment == parseNumber[OrZeroStr(mi)]
      fill == FillBranch(dp, rp, mi, focus)
      byFocus == FocusBranch(focus)
      \* lines 95-128
      down1 ==
        IF fill = "down" THEN calculateDownPayment[price, installment, period]
        ELSE down
      period1 ==
        IF fill = "period" THEN calculatePeriod[price, down, installment]
        ELSE period
      installment1 ==
        IF fill = "installment" THEN calculateInstallment[price, down, period]
        ELSE installment
      \* lines 133-141
      totals == Totals[price, down1, period1, installment1]
      \* lines 143-159
      period2 ==
        IF byFocus = "period" THEN calculatePeriod[price, down, installment]
        ELSE period1
      installment2 ==
        IF byFocus = "installment"
        THEN calculateInstallment[price, down, period]
        ELSE installment1
      none ==
        [outcome |-> "", setDown |-> NoWrite, setPeriod |-> NoWrite,
         setInstallment |-> NoWrite, setsCalculatedField |-> FALSE,
         setCalculatedField |-> "", setError |-> NoError,
         setResults |-> NoResults, fill |-> "", byFocus |-> "",
         calculatedDown |-> down, calculatedPeriod |-> period,
         calculatedInstallment |-> installment]
  IN  IF Le(price, Zero)
      THEN [none EXCEPT !.outcome = "MissingPrice",
                        !.setError = MissingPriceError]
      ELSE IF TooFewFilled(dp, rp, mi)
      THEN [none EXCEPT !.outcome = "InsufficientInputs",
                        !.setError = InsufficientInputsError]
      ELSE [outcome |-> "checked",
            setDown |-> IF fill = "down" THEN toFixed[down1, 2] ELSE NoWrite,
            setPeriod |->
              IF byFocus = "period" THEN toFixed[period2, 0]
              ELSE IF fill = "period" THEN toFixed[period1, 0]
              ELSE NoWrite,
            setInstallment |->
              IF byFocus = "installment" THEN toFixed[installment2, 2]
              ELSE IF fill = "installment" THEN toFixed[installment1, 2]
              ELSE NoWrite,
            setsCalculatedField |-> TRUE,
            setCalculatedField |-> fill,
            setError |-> ErrorOf[totals.missingAmount],
            setResults |-> totals,
            fill |-> fill,
            byFocus |-> byFocus,
            calculatedDown |-> down1,
            calculatedPeriod |-> period2,
            calculatedInstallment |-> installment2]

(***************************************************************************)
(* The effects (lines 179-189), run after every render.                    *)
(***************************************************************************)
Deps == <<purchasePrice, downPayment, repaymentPeriod, monthlyInstallment>>

\* line 189 without the dependency array: the effect runs after every render.
DepsChanged_EveryRender == TRUE

\* line 189: the second effect runs when a dependency changed since the
\* previous render (and on mount, when there is no previous render).
DepsChanged == lastDeps # Deps

\* lines 185-188
CallsResolver == DepsChanged /\ Truthy(purchasePrice)

NoPass ==
  [ran |-> FALSE, outcome |-> "", focus |-> "", price |-> Empty,
   down |-> Empty, period |-> Empty, installment |-> Empty,
   setDown |-> NoWrite, setPeriod |-> NoWrite, setInstallment |-> NoWrite,
   fill |-> "", byFocus |-> "", calculatedDown |-> Zero,
   calculatedPeriod |-> Zero, calculatedInstallment |-> Zero,
   defaulted |-> FALSE]

PassRecord(r) ==
  [ran |-> TRUE, outcome |-> r.outcome, focus |-> isFocus,
   price |-> purchasePrice, down |-> downPayment, period |-> repaymentPeriod,
   installment |-> monthlyInstallment, setDown |-> r.setDown,
   setPeriod |-> r.setPeriod, setInstallment |-> r.setInstallment,
   fill |-> r.fill, byFocus |-> r.byFocus,
   calculatedDown |-> r.calculatedDown,
   calculatedPeriod |-> r.calculatedPeriod,
   calculatedInstallment |-> r.calculatedInstallment,
   defaulted |-> (downPayment = Empty)]

\* One commit: both effects run on the values of the render, their setState
\* calls are applied as one batch (for a setter called twice, the last call),
\* and React renders again when the state changed.  setResults with a fresh
\* object always changes the state.
RunEffects ==
  /\ pending
  /\ \E r \in {validateAndCalculate(purchasePrice, downPayment,
                                    repaymentPeriod, monthlyInstallment,
                                    isFocus)} :
       LET defaulted == downPayment = Empty
           calls == CallsResolver
           newDown ==
             IF calls /\ r.setDown # NoWrite THEN r.setDown
             ELSE IF defaulted THEN Typed(0)
             ELSE downPayment
           newPeriod ==
             IF calls /\ r.setPeriod # NoWrite THEN r.setPeriod
             ELSE repaymentPeriod
           newInstallment ==
             IF calls /\ r.setInstallment # NoWrite THEN r.setInstallment
             ELSE monthlyInstallment
           newCalculatedField ==
             IF calls /\ r.setsCalculatedField THEN r.setCalculatedField
             ELSE calculatedField
           newError == IF calls THEN r.setError ELSE error
           newResults == IF calls THEN r.setResults ELSE results
       IN  /\ downPayment' = newDown
           /\ repaymentPeriod' = newPeriod
           /\ monthlyInstallment' = newInstallment
           /\ calculatedField' = newCalculatedField
           /\ error' = newError
           /\ results' = newResults
           /\ lastPass' =
                IF calls THEN PassRecord(r)
                ELSE [NoPass EXCEPT !.defaulted = defaulted]
           /\ pending' =
                (\/ newDown # downPayment
                 \/ newPeriod # repaymentPeriod
                 \/ newInstallment # monthlyInstallment
                 \/ newCalculatedField # calculatedField
                 \/ newError # error
                 \/ newResults # results
                 \/ (calls /\ r.outcome = "checked"))
  /\ lastDeps' = Deps
  /\ passes' =
       IF CallsResolver /\ passes < MaxPasses THEN passes + 1 ELSE passes
  /\ UNCHANGED <<purchasePrice, isFocus, events, rt>>

(***************************************************************************)
(* The user's events (lines 222-312).  React runs the effects of a render  *)
(* before it handles the next event.                                       *)
(***************************************************************************)
PriceInputs == {Empty, Typed(0), Typed(10)}
DownInputs == {Empty, Typed(0), Typed(2)}
PeriodInputs == {Empty, Typed(0), Typed(10)}
InstallmentInputs == {Empty, Typed(0), Typed(2)}
FocusValues == {"price", "down", "period", "installment"}

CanEdit == ~pending /\ events < MaxEvents

\* line 229
ChangePrice(v) ==
  /\ CanEdit
  /\ v # purchasePrice
  /\ purchasePrice' = v
  /\ pending' = TRUE
  /\ events' = events + 1
  /\ passes' = 0
  /\ UNCHANGED <<downPayment, repaymentPeriod, monthlyInstallment, isFocus,
                 calculatedField, error, results, lastDeps, lastPass, rt>>

\* line 250
ChangeDown(v) ==
  /\ CanEdit
  /\ v # downPayment
  /\ downPayment' = v
  /\ pending' = TRUE
  /\ events' = events + 1
  /\ passes' = 0
  /\ UNCHANGED <<purchasePrice, repaymentPeriod, monthlyInstallment, isFocus,
                 calculatedField, error, results, lastDeps, lastPass, rt>>

\* line 278
ChangePeriod(v) ==
  /\ CanEdit
  /\ v # repaymentPeriod
  /\ repaymentPeriod' = v
  /\ pending' = TRUE
  /\ events' = events + 1
  /\ passes' = 0
  /\ UNCHANGED <<purchasePrice, downPayment, monthlyInstallment, isFocus,
                 calculatedField, error, results, lastDeps, lastPass, rt>>

\* line 306
ChangeInstallment(v) ==
  /\ CanEdit
  /\ v # monthlyInstallment
  /\ monthlyInstallment' = v
  /\ pending' = TRUE
  /\ events' = events + 1
  /\ passes' = 0
  /\ UNCHANGED <<purchasePrice, downPayment, repaymentPeriod, isFocus,
                 calculatedField, error, results, lastDeps, lastPass, rt>>

\* onFocus (lines 227, 248, 276, 304): a field takes the focus when no
\* field has it.
Focus(f) ==
  /\ ~pending
  /\ isFocus = ""
  /\ isFocus' = f
  /\ pending' = TRUE
  /\ UNCHANGED <<purchasePrice, downPayment, repaymentPeriod,
                 monthlyInstallment, calculatedField, error, results,
                 lastDeps, lastPass, events, passes, rt>>

\* onBlur (lines 228, 249, 277, 305)
Blur ==
  /\ ~pending
  /\ isFocus # ""
  /\ isFocus' = ""
  /\ pending' = TRUE
  /\ UNCHANGED <<purchasePrice, downPayment, repaymentPeriod,
                 monthlyInstallment, calculatedField, error, results,
                 lastDeps, lastPass, events, passes, rt>>

NoRoundTrip ==
  [stage |-> "none", price |-> Zero, installment |-> Zero, period |-> Zero,
   down |-> Zero, back |-> Zero]

\* The component as mounted: every field "", the first render committed and
\* its effects still to run.
Init ==
  /\ purchasePrice = Empty
  /\ downPayment = Empty
  /\ repaymentPeriod = Empty
  /\ monthlyInstallment = Empty
  /\ isFocus = ""
  /\ calculatedField = ""
  /\ error = NoError
  /\ results = NoResults
  /\ pending = TRUE
  /\ lastDeps = <<>>
  /\ lastPass = NoPass
  /\ events = 0
  /\ passes = 0
  /\ rt = NoRoundTrip

Next ==
  \/ RunEffects
  \/ \E v \in PriceInputs : ChangePrice(v)
  \/ \E v \in DownInputs : ChangeDown(v)
  \/ \E v \in PeriodInputs : ChangePeriod(v)
  \/ \E v \in InstallmentInputs : ChangeInstallment(v)
  \/ \E f \in FocusValues : Focus(f)
  \/ Blur

Spec == Init /\ [][Next]_vars

\* React flushes the effects of a committed render: RunEffects is not
\* postponed for ever.
FairSpec == Spec /\ WF_vars(RunEffects)

(***************************************************************************)
(* The round trip calculateDownPayment, then calculatePeriod, on inputs    *)
(* drawn from small sets.                                                  *)
(***************************************************************************)
RTPrices == {1000, 5000, 10000}
RTInstallments == {100, 400, 900}
RTPeriods == {6, 10, 12, 24}

InitRT ==
  /\ purchasePrice = Empty
  /\ downPayment = Empty
  /\ repaymentPeriod = Empty
  /\ monthlyInstallment = Empty
  /\ isFocus = ""
  /\ calculatedField = ""
  /\ error = NoError
  /\ results = NoResults
  /\ pending = FALSE
  /\ lastDeps = <<>>
  /\ lastPass = NoPass
  /\ events = 0
  /\ passes = 0
  /\ \E p \in RTPrices, i \in RTInstallments, n \in RTPeriods :
       rt = [NoRoundTrip EXCEPT !.stage = "in", !.price = Fin[p, 1],
                                !.installment = Fin[i, 1],
                                !.period = Fin[n, 1]]

RTDeriveDown ==
  /\ rt.stage = "in"
  /\ rt' = [rt EXCEPT !.stage = "down",
                      !.down = calculateDownPayment[rt.price, rt.installment,
                                                    rt.period]]
  /\ UNCHANGED <<purchasePrice, downPayment, repaymentPeriod,
                 monthlyInstallment, isFocus, calculatedField, error, results,
                 pending, lastDeps, lastPass, events, passes>>

RTDerivePeriod ==
  /\ rt.stage = "down"
  /\ rt' = [rt EXCEPT !.stage = "back",
                      !.back = calculatePeriod[rt.price, rt.down,
                                               rt.installment]]
  /\ UNCHANGED <<purchasePrice, downPayment, repaymentPeriod,
                 monthlyInstallment, isFocus, calculatedField, error, results,
                 pending, lastDeps, lastPass, events, passes>>

NextRT == RTDeriveDown \/ RTDerivePeriod

SpecRT == InitRT /\ [][NextRT]_vars

(***************************************************************************)
(* Properties.  lastPass records the last commit: the strings the resolver *)
(* read, the focus, the strings it wrote and the values its locals ended   *)
(* with; results, error and calculatedField change only in a commit.       *)
(***************************************************************************)
Secondary == {"down", "period", "installment"}

PassPrice == parseNumber[lastPass.price]
PassDown == parseNumber[lastPass.down]
PassPeriod == parseNumber[lastPass.period]
PassInstallment == parseNumber[lastPass.installment]
PassFilled == filledFields(lastPass.down, lastPass.period, lastPass.installment)

\* The resolver ran with a price > 0.
PassWithPrice == lastPass.ran /\ Gt(PassPrice, Zero)

\* The string the resolver wrote into a field (NoWrite when it wrote none).
WrittenTo(f) ==
  CASE f = "down" -> lastPass.setDown
    [] f = "period" -> lastPass.setPeriod
    [] f = "installment" -> lastPass.setInstallment
    [] OTHER -> NoWrite

WrittenFields == {f \in Secondary : WrittenTo(f) # NoWrite}

\* The formulas as the specification states them, A = price - down.
StatedInstallment(price, down, period) ==
  Div[Mul[Sub[price, down], Add[One, Mul[MONTHLY_PROFIT_RATE, period]]],
      period]
StatedDown(price, installment, period) ==
  Sub[Mul[price, Add[One, Mul[MONTHLY_PROFIT_RATE, period]]],
      Mul[installment, period]]
PeriodDenominator(price, down, installment) ==
  Sub[installment, Mul[Sub[price, down], MONTHLY_PROFIT_RATE]]
StatedPeriod(price, down, installment) ==
  Div[Sub[price, down], PeriodDenominator(price, down, installment)]

\* The text of the stated formula's value for field f, on the pass's inputs.
StatedText(f) ==
  CASE f = "installment" ->
         toFixed[StatedInstallment(PassPrice, PassDown, PassPeriod), 2]
    [] f = "down" ->
         toFixed[StatedDown(PassPrice, PassInstallment, PassPeriod), 2]
    [] OTHER ->
         toFixed[StatedPeriod(PassPrice, PassDown, PassInstallment), 0]

\* The stated formula for field f divides by a number other than zero.
StatedDefined(f) ==
  CASE f = "installment" -> PassPeriod # Zero
    [] f = "down" -> TRUE
    [] OTHER -> PeriodDenominator(PassPrice, PassDown, PassInstallment) # Zero

\* C1: in a pass with price > 0, exactly two secondary fields filled and the
\* empty one not focused, the resolver derives the empty field, and writes
\* into it the value of the stated formula (period to a whole number, money
\* to 2 decimals).
C1_DerivesEmptyByFormula ==
  \A f \in Secondary :
    (/\ PassWithPrice
     /\ PassFilled = Secondary \ {f}
     /\ lastPass.focus # f
     /\ StatedDefined(f))
    => (lastPass.fill = f /\ WrittenTo(f) = StatedText(f))

\* C2: in a pass that reaches the sufficiency check, the reported totals are
\* price + (price - down)*r*period, down + installment*period and their
\* difference on the down/period/installment the pass ends with.
C2_TotalsOnFinalTrio ==
  (lastPass.ran /\ lastPass.outcome = "checked")
  => results = Totals[PassPrice, lastPass.calculatedDown,
                      lastPass.calculatedPeriod,
                      lastPass.calculatedInstallment]

\* C3: once the effects have run, a price that is absent or <= 0 leaves no
\* results report.
C3_NoResultsWithoutPrice ==
  (~pending /\ (~Truthy(purchasePrice) \/ Le(parseNumber[purchasePrice], Zero)))
  => results = NoResults

C6_AtMostOneWritten == lastPass.ran => Cardinality(WrittenFields) <= 1

\* C7: when the period is derived and installment - (price - down)*r <= 0,
\* the resolver does not write a numeric zero into the period field.
C7_InfeasiblePeriodNotZero ==
  (/\ PassWithPrice
   /\ (lastPass.fill = "period" \/ lastPass.byFocus = "period")
   /\ lastPass.setPeriod # NoWrite
   /\ Le(PeriodDenominator(PassPrice, PassDown, PassInstallment), Zero))
  => parseFloat[lastPass.setPeriod] # Zero

\* A string that reads as a finite number >= 0.
FiniteNonNegative(s) == s.k = "num" /\ (~s.neg \/ s.mag = 0)

\* C8: every string a pass with price > 0 writes into the down payment,
\* period or installment field is a finite, non-negative number.
C8_WritesFiniteNonNegative ==
  PassWithPrice => \A f \in WrittenFields : FiniteNonNegative(WrittenTo(f))

\* |a - b| <= t
Within(a, b, t) == Le(Sub[a, b], t) /\ Le(Sub[b, a], t)

\* C9: for price, installment, period > 0 with the period denominator > 0,
\* calculatePeriod on the down payment of calculateDownPayment gives back the
\* period, here to within half a month.
C9_RoundTrip ==
  (/\ rt.stage = "back"
   /\ Gt(rt.price, Zero)
   /\ Gt(rt.installment, Zero)
   /\ Gt(rt.period, Zero)
   /\ Gt(PeriodDenominator(rt.price, rt.down, rt.installment), Zero))
  => Within(rt.back, rt.period, Fin[1, 2])

\* C10: after a user event the passes the program's own writes trigger come
\* to an end: a committed render is followed by a state with no effects left
\* to run.
C10_Quiesces == pending ~> ~pending

C10_Witness == ~pending /\ passes >= 3

=============================================================================
